---- MODULE Spec2Model ----
(***************************************************************************)
(* Model of httpresptime (src/httpresptime.py): main, get_redirected_url,  *)
(* print_using_url, time_url, calc_resp_times, loop_url,                   *)
(* display_url_info and the top-level KeyboardInterrupt handler.           *)
(*                                                                         *)
(* The program is single-threaded.  Every blocking call (an HTTP GET, the  *)
(* interval sleep) is a position of the program counter pc; the network    *)
(* and the user (interrupt) are the environment.  `trace` is the history   *)
(* of everything observable: GETs sent, responses received, lines printed  *)
(* and sleeps, each tagged with the time_url call (run) it belongs to.     *)
(*                                                                         *)
(* Flags that only change the text of a printed line (--loop-verbose,      *)
(* -H, --ua-spoof) are not part of the state: no control flow reads them.  *)
(***************************************************************************)
EXTENDS Integers, Sequences, FiniteSets

VARIABLES
    args,        \* argparse namespace: requests, keepalive, single, loop, info, parsable, report
    url,         \* main's local `url`
    redir_url,   \* main's local `redir_url`
    pc,          \* position of the single thread of control
    run,         \* parameters of the current time_url call
    runId,       \* number of time_url calls / loop iterations started so far
    session,     \* time_url's `session`: 0 is the `requests` module, k > 0 the k-th Session()
    nextSession, \* number of Session objects created so far
    resp_times,  \* time_url's `resp_times`
    i,           \* number of completed iterations of time_url's for loop
    start,       \* time_url's `start`
    r,           \* time_url's `r` (last response of the timed loop)
    ret,         \* value returned by time_url / calc_resp_times
    clock,       \* time.time(), in ticks
    inflight,    \* number of GET requests sent and not yet returned
    exc,         \* the exception that was raised last, and where
    trace        \* history of GETs, responses, printed lines and sleeps

vars == <<args, url, redir_url, pc, run, runId, session, nextSession, resp_times,
          i, start, r, ret, clock, inflight, exc, trace>>

----------------------------------------------------------------------------
(* Bounds *)

\* mantissa bits of the floating-point format (binary64 has 53)
Precision == 3
\* largest single duration, in ticks of the smallest representable step
MaxDuration == 7
\* longest sequence of durations given to calc_resp_times on its own
MaxLen == 3
\* largest -n request count
MaxRequests == 2
\* iterations of loop_url's endless loop that are explored
MaxIter == 2
\* longest time one timed request takes, in clock ticks
MaxElapsed == 2

----------------------------------------------------------------------------
(* Floating point: Python floats are IEEE-754 binary, every operation      *)
(* rounded to nearest, ties to even.  Values are counted in units of the   *)
(* smallest step (the subnormal spacing), so a float is a natural number   *)
(* with at most Precision significant bits.                                *)

RECURSIVE Pow2(_)
Pow2(k) == IF k = 0 THEN 1 ELSE 2 * Pow2(k - 1)

\* spacing of the floats around num/den
RECURSIVE Ulp(_, _, _)
Ulp(num, den, s) ==
    IF num \div (den * s) < Pow2(Precision) THEN s ELSE Ulp(num, den, 2 * s)

\* the float nearest to the rational num/den, ties to the even mantissa
RoundNearestEven(num, den) ==
    LET s  == Ulp(num, den, 1)
        q  == num \div (den * s)
        rm == num % (den * s)
        up == \/ 2 * rm > den * s
              \/ 2 * rm = den * s /\ q % 2 = 1
    IN  (IF up THEN q + 1 ELSE q) * s

IsFloat(x) == RoundNearestEven(x, 1) = x

\* total_time += resp_time
float_add(a, b) == RoundNearestEven(a + b, 1)

\* total_time / len(resp_times)
float_div(a, n) == RoundNearestEven(a, n)

min(a, b) == IF b < a THEN b ELSE a
max(a, b) == IF b > a THEN b ELSE a

None == "None"

----------------------------------------------------------------------------
(* calc_resp_times *)

\* the for loop: k is the index of the next element, acc the locals
RECURSIVE calc_loop(_, _, _)
calc_loop(seq, k, acc) ==
    IF k > Len(seq) THEN acc
    ELSE LET resp_time == seq[k]
             lo == IF acc.first THEN resp_time ELSE acc.min_time
             hi == IF acc.first THEN resp_time ELSE acc.max_time
         IN  calc_loop(seq, k + 1,
                 [first      |-> FALSE,
                  min_time   |-> min(lo, resp_time),
                  max_time   |-> max(hi, resp_time),
                  total_time |-> float_add(acc.total_time, resp_time)])

calc_resp_times(seq) ==
    LET acc == calc_loop(seq, 1,
                   [first |-> TRUE, min_time |-> None, max_time |-> None, total_time |-> 0])
    IN  IF Len(seq) = 0
        THEN [raised |-> "ZeroDivisionError",
              min_time |-> None, max_time |-> None, avg_time |-> None]
        ELSE [raised |-> "",
              min_time |-> acc.min_time, max_time |-> acc.max_time,
              avg_time |-> float_div(acc.total_time, Len(seq))]

----------------------------------------------------------------------------
(* URLs, responses, exceptions, events *)

\* a URL is its sequence of tokens, so that "'://' in url" is a real test
HasScheme(u) == \E k \in DOMAIN u : u[k] = "://"

\* 'http://%s' % url
WithDefaultScheme(u) == IF HasScheme(u) THEN u ELSE <<"http", "://">> \o u

InputUrls == { <<"host">>, <<"https", "://", "host">> }

\* where the server may end up after following redirects from u
FinalUrls(u) == { u, <<"https", "://", "final">> }

Statuses == {200, 404}
\* len(r.text)
BodySizes == {7}

\* What one GET of u can come to: a response whose url is one of finals, or an
\* exception of the client.  The resolver and the info request read resp.url;
\* the sampler is handed the final URL and never reads it, so its responses
\* carry the URL that was asked for.
Responses(finals) == [status : Statuses, url : finals, size : BodySizes]
NetworkFailure == [status |-> 0, url |-> <<>>, size |-> 0]
Outcomes(finals) == Responses(finals) \cup {NetworkFailure}

\* Response.raise_for_status of the HTTP client: 4xx and 5xx raise HTTPError
raise_for_status_M(status) == status >= 500 /\ status < 600
raise_for_status(status) == status >= 400 /\ status < 600

\* resp.url
get_redirected_url_M(u, resp) == u
get_redirected_url(u, resp) == resp.url

\* "except Exception" of loop_url: KeyboardInterrupt is no subclass of Exception
loop_catches_All(e) == TRUE
loop_catches_NoHTTP(e) == e \notin {"KeyboardInterrupt", "HTTPError"}
loop_catches(e) == e # "KeyboardInterrupt"

\* "except KeyboardInterrupt" around main()
top_catches(e) == e = "KeyboardInterrupt"

NoExc == [type |-> "", where |-> ""]

Ev(ev, kind, rid, via, u, status, d) ==
    [ev |-> ev, kind |-> kind, run |-> rid, via |-> via, url |-> u,
     status |-> status, d |-> d]
Get(kind, rid, via, u) == Ev("GET", kind, rid, via, u, 0, 0)
Resp(kind, rid, via, resp, d) == Ev("RESP", kind, rid, via, resp.url, resp.status, d)
Failed(kind, rid, via, u) == Ev("FAIL", kind, rid, via, u, 0, 0)
Line(kind, rid) == Ev("print", kind, rid, 0, <<>>, 0, 0)
Slept(rid, delay) == Ev("sleep", "sleep", rid, 0, <<>>, 0, delay)

\* requests.Session(): a new object each time, the k-th one is k
Session_M(created) == 1
Session(created) == created + 1

\* session.get of the timed loop goes through time_url's `session`
session_get_M(sess) == 0
session_get(sess) == sess

\* resp_times.append(end - start)
append_M(times, t) == <<t>> \o times
append(times, t) == Append(times, t)

\* default of --loop-delay
LoopDelay == 10

TimeUrlPcs == {"time_url", "prime", "timed_loop", "timed"}
Terminal == {"done", "crashed", "aborted"}

\* An exception e raised at the current position, after the events evs:
\* inside loop_url's try it is matched against "except Exception", then it
\* reaches the handler around main(), then the interpreter (traceback).
Propagate(e, evs) ==
    LET inTry == run.caller = "loop_url" /\ pc \in TimeUrlPcs
    IN  /\ exc' = [type |-> e, where |-> pc]
        /\ IF inTry /\ loop_catches(e)
           THEN /\ pc' = "sleep"
                /\ trace' = trace \o evs \o <<Line("ERROR", runId)>>
           ELSE IF top_catches(e)
           THEN /\ pc' = "aborted"
                /\ trace' = trace \o evs \o <<Line("Aborted", 0)>>
           ELSE /\ pc' = "crashed"
                /\ trace' = trace \o evs

----------------------------------------------------------------------------
(* The program *)

\* default of -n
DefaultRequests == 5

\* -n takes any int; 0 is accepted
RequestCounts == 0 .. MaxRequests

ArgSets ==
    [requests : RequestCounts \cup {DefaultRequests}, keepalive : BOOLEAN,
     single : BOOLEAN, loop : BOOLEAN, info : BOOLEAN, parsable : BOOLEAN,
     report : BOOLEAN]

\* The command lines that are told apart: a flag the selected mode never reads
\* stays at its default.  Loop mode (main takes the first branch) reads
\* single, keepalive and parsable; info mode reads none of the flags kept
\* here; single-run mode reads them all.
ParsedArgs ==
    { a \in ArgSets :
        /\ a.loop => a.requests = DefaultRequests /\ ~a.info /\ ~a.report
        /\ (~a.loop /\ a.info) =>
               /\ a.requests = DefaultRequests
               /\ a.keepalive /\ ~a.single /\ ~a.parsable /\ ~a.report
        /\ (~a.loop /\ ~a.info) => a.requests \in RequestCounts }

NoRun == [url |-> <<>>, num_requests |-> 0, display_progress |-> FALSE,
          use_keepalive |-> FALSE, caller |-> ""]

Init ==
    /\ args \in ParsedArgs
    /\ url \in InputUrls
    /\ redir_url = <<>>
    /\ pc = "main"
    /\ run = NoRun
    /\ runId = 0
    /\ session = 0
    /\ nextSession = 0
    /\ resp_times = <<>>
    /\ i = 0
    /\ start = 0
    /\ r = NetworkFailure
    /\ ret = calc_resp_times(<<>>)
    /\ clock = 0
    /\ inflight = 0
    /\ exc = NoExc
    /\ trace = <<>>

\* main, up to its first blocking call
Main ==
    /\ pc = "main"
    /\ LET a1 == IF args.single
                 THEN [args EXCEPT !.requests = 1, !.keepalive = FALSE]
                 ELSE args
           u1 == WithDefaultScheme(url)
       IN  /\ args' = a1
           /\ url' = u1
           /\ IF a1.loop
              THEN /\ trace' = Append(trace, Get("resolve", 0, 0, u1))
                   /\ inflight' = inflight + 1
                   /\ pc' = "resolve"
                   /\ UNCHANGED redir_url
              ELSE IF a1.info
              THEN /\ trace' = Append(trace, Get("info", 0, 0, u1))
                   /\ inflight' = inflight + 1
                   /\ pc' = "info"
                   /\ UNCHANGED redir_url
              ELSE IF a1.single
              THEN /\ redir_url' = u1
                   /\ pc' = "using"
                   /\ UNCHANGED <<trace, inflight>>
              ELSE /\ trace' = Append(trace, Get("resolve", 0, 0, u1))
                   /\ inflight' = inflight + 1
                   /\ pc' = "resolve"
                   /\ UNCHANGED redir_url
    /\ UNCHANGED <<run, runId, session, nextSession, resp_times, i, start, r, ret,
                   clock, exc>>

\* get_redirected_url: the GET returns
ResolveReturn ==
    /\ pc = "resolve"
    /\ \E out \in Outcomes(FinalUrls(url)) :
          /\ inflight' = inflight - 1
          /\ clock' = clock + 1
          /\ IF out = NetworkFailure
             THEN /\ Propagate("ConnectionError", <<Failed("resolve", 0, 0, url)>>)
                  /\ UNCHANGED redir_url
             ELSE /\ redir_url' = get_redirected_url(url, out)
                  /\ trace' = Append(trace, Resp("resolve", 0, 0, out, 0))
                  /\ pc' = "using"
                  /\ UNCHANGED exc
    /\ UNCHANGED <<args, url, run, runId, session, nextSession, resp_times, i, start,
                   r, ret>>

\* print_using_url unless --parsable, then loop_url is entered or time_url called
PrintUsingUrl ==
    /\ pc = "using"
    /\ \E dns \in IF args.parsable THEN {"skipped"} ELSE {"resolved", "gaierror"} :
          IF dns = "gaierror"
          THEN /\ Propagate("gaierror", <<>>)
               /\ UNCHANGED <<run, runId, resp_times, i>>
          ELSE /\ trace' = IF dns = "resolved"
                           THEN Append(trace, Line("using", 0))
                           ELSE trace
               /\ UNCHANGED exc
               /\ IF args.loop
                  THEN /\ pc' = "loop_top"
                       /\ UNCHANGED <<run, runId, resp_times, i>>
                  ELSE /\ pc' = "time_url"
                       /\ run' = [url |-> redir_url,
                                  num_requests |-> args.requests,
                                  display_progress |-> ~(args.parsable \/ args.report),
                                  use_keepalive |-> args.keepalive,
                                  caller |-> "main"]
                       /\ runId' = runId + 1
                       /\ resp_times' = <<>>
                       /\ i' = 0
    /\ UNCHANGED <<args, url, redir_url, session, nextSession, start, r, ret, clock,
                   inflight>>

\* loop_url: top of the while loop, up to the call of time_url
LoopTop ==
    /\ pc = "loop_top"
    /\ runId < MaxIter
    /\ runId' = runId + 1
    /\ trace' = Append(trace, Line("timestamp", runId + 1))
    /\ run' = [url |-> redir_url, num_requests |-> 1, display_progress |-> FALSE,
               use_keepalive |-> args.keepalive, caller |-> "loop_url"]
    /\ resp_times' = <<>>
    /\ i' = 0
    /\ pc' = "time_url"
    /\ UNCHANGED <<args, url, redir_url, session, nextSession, start, r, ret, clock,
                   inflight, exc>>

ProgressHeader == IF run.display_progress THEN <<Line("progress_header", runId)>> ELSE <<>>

\* time_url: session set-up; with keepalive the priming GET is sent
TimeUrlBegin ==
    /\ pc = "time_url"
    /\ IF run.use_keepalive
       THEN /\ nextSession' = nextSession + 1
            /\ session' = Session(nextSession)
            /\ trace' = Append(trace, Get("prime", runId, Session(nextSession), run.url))
            /\ inflight' = inflight + 1
            /\ pc' = "prime"
       ELSE /\ session' = 0
            /\ trace' = trace \o ProgressHeader
            /\ pc' = "timed_loop"
            /\ UNCHANGED <<nextSession, inflight>>
    /\ UNCHANGED <<args, url, redir_url, run, runId, resp_times, i, start, r, ret,
                   clock, exc>>

\* time_url: the priming GET returns; its status is not looked at
PrimeReturn ==
    /\ pc = "prime"
    /\ \E out \in Outcomes({run.url}) :
          /\ inflight' = inflight - 1
          /\ clock' = clock + 1
          /\ IF out = NetworkFailure
             THEN Propagate("ConnectionError",
                            <<Failed("prime", runId, session, run.url)>>)
             ELSE /\ trace' = Append(trace, Resp("prime", runId, session, out, 0))
                               \o ProgressHeader
                  /\ pc' = "timed_loop"
                  /\ UNCHANGED exc
    /\ UNCHANGED <<args, url, redir_url, run, runId, session, nextSession, resp_times,
                   i, start, r, ret>>

\* time_url: the for loop takes the clock and sends the next timed GET
TimedSend ==
    /\ pc = "timed_loop"
    /\ i < run.num_requests
    /\ start' = clock
    /\ trace' = Append(trace, Get("timed", runId, session_get(session), run.url))
    /\ inflight' = inflight + 1
    /\ pc' = "timed"
    /\ UNCHANGED <<args, url, redir_url, run, runId, session, nextSession, resp_times,
                   i, r, ret, clock, exc>>

\* time_url: the timed GET returns after d ticks
TimedReturn ==
    /\ pc = "timed"
    /\ \E out \in Outcomes({run.url}) :
          /\ inflight' = inflight - 1
          /\ IF out = NetworkFailure
             THEN /\ Propagate("ConnectionError",
                               <<Failed("timed", runId, session_get(session), run.url)>>)
                  /\ clock' = clock + 1
                  /\ UNCHANGED <<resp_times, r, i>>
             ELSE \E d \in 1 .. MaxElapsed :
                  LET end == clock + d
                      got == Resp("timed", runId, session_get(session), out, d)
                  IN  /\ clock' = end
                      /\ resp_times' = append(resp_times, end - start)
                      /\ r' = out
                      /\ IF raise_for_status(out.status)
                         THEN /\ Propagate("HTTPError", <<got>>)
                              /\ UNCHANGED i
                         ELSE /\ trace' = Append(trace, got) \o
                                     (IF run.display_progress
                                      THEN <<Line("progress_dot", runId)>> ELSE <<>>)
                              /\ i' = i + 1
                              /\ pc' = "timed_loop"
                              /\ UNCHANGED exc
    /\ UNCHANGED <<args, url, redir_url, run, runId, session, nextSession, start, ret>>

\* time_url: after the for loop
TimeUrlFinish ==
    /\ pc = "timed_loop"
    /\ i >= run.num_requests
    /\ LET evs == IF run.display_progress
                  THEN <<Line("progress_end", runId)>> ELSE <<>>
           c   == calc_resp_times(resp_times)
       IN  IF c.raised # ""
           THEN /\ Propagate(c.raised, evs)
                /\ UNCHANGED ret
           ELSE /\ ret' = [raised |-> c.raised, min_time |-> c.min_time,
                            max_time |-> c.max_time, avg_time |-> c.avg_time,
                            last_status_code |-> r.status, last_size |-> r.size]
                /\ trace' = trace \o evs
                /\ pc' = IF run.caller = "main" THEN "summary" ELSE "loop_result"
                /\ UNCHANGED exc
    /\ UNCHANGED <<args, url, redir_url, run, runId, session, nextSession, resp_times,
                   i, start, r, clock, inflight>>

\* main: the summary in the format the flags select
MainSummary ==
    /\ pc = "summary"
    /\ trace' = Append(trace,
                   Line(IF args.parsable THEN "summary_parsable"
                         ELSE IF args.report THEN "summary_report"
                         ELSE "summary_human", runId))
    /\ pc' = "done"
    /\ UNCHANGED <<args, url, redir_url, run, runId, session, nextSession, resp_times,
                   i, start, r, ret, clock, inflight, exc>>

\* loop_url: the else clause of the try
LoopResult ==
    /\ pc = "loop_result"
    /\ trace' = Append(trace, Line("result", runId))
    /\ pc' = "sleep"
    /\ UNCHANGED <<args, url, redir_url, run, runId, session, nextSession, resp_times,
                   i, start, r, ret, clock, inflight, exc>>

\* loop_url: time.sleep(delay)
Sleep ==
    /\ pc = "sleep"
    /\ clock' = clock + LoopDelay
    /\ trace' = Append(trace, Slept(runId, LoopDelay))
    /\ pc' = "loop_top"
    /\ UNCHANGED <<args, url, redir_url, run, runId, session, nextSession, resp_times,
                   i, start, r, ret, inflight, exc>>

\* display_url_info: the GET returns and the information is printed
InfoReturn ==
    /\ pc = "info"
    /\ \E out \in Outcomes(FinalUrls(url)) :
          /\ inflight' = inflight - 1
          /\ clock' = clock + 1
          /\ IF out = NetworkFailure
             THEN Propagate("ConnectionError", <<Failed("info", 0, 0, url)>>)
             ELSE /\ trace' = trace \o <<Resp("info", 0, 0, out, 0), Line("info", 0)>>
                  /\ pc' = "done"
                  /\ UNCHANGED exc
    /\ UNCHANGED <<args, url, redir_url, run, runId, session, nextSession, resp_times,
                   i, start, r, ret>>

\* the user interrupts: KeyboardInterrupt is raised wherever the program is
Interrupt ==
    /\ pc \notin Terminal
    /\ Propagate("KeyboardInterrupt", <<>>)
    /\ inflight' = 0
    /\ UNCHANGED <<args, url, redir_url, run, runId, session, nextSession, resp_times,
                   i, start, r, ret, clock>>

Next ==
    \/ Main
    \/ ResolveReturn
    \/ PrintUsingUrl
    \/ LoopTop
    \/ TimeUrlBegin
    \/ PrimeReturn
    \/ TimedSend
    \/ TimedReturn
    \/ TimeUrlFinish
    \/ MainSummary
    \/ LoopResult
    \/ Sleep
    \/ InfoReturn
    \/ Interrupt

Spec == Init /\ [][Next]_vars

----------------------------------------------------------------------------
(* calc_resp_times on its own: every sequence of up to MaxLen floats *)

Durations == { x \in 1 .. MaxDuration : IsFloat(x) }

RECURSIVE SeqsUpTo(_, _)
SeqsUpTo(S, n) ==
    IF n = 0 THEN { <<>> }
    ELSE LET shorter == SeqsUpTo(S, n - 1)
         IN  shorter \cup { Append(q, x) : q \in shorter, x \in S }

CalcInit ==
    /\ args = [requests |-> DefaultRequests, keepalive |-> TRUE, single |-> FALSE,
               loop |-> FALSE, info |-> FALSE, parsable |-> FALSE, report |-> FALSE]
    /\ url = <<>>
    /\ redir_url = <<>>
    /\ pc = "calc"
    /\ run = NoRun
    /\ runId = 0
    /\ session = 0
    /\ nextSession = 0
    /\ resp_times \in SeqsUpTo(Durations, MaxLen)
    /\ i = 0
    /\ start = 0
    /\ r = NetworkFailure
    /\ ret = calc_resp_times(<<>>)
    /\ clock = 0
    /\ inflight = 0
    /\ exc = NoExc
    /\ trace = <<>>

\* ret = calc_resp_times(resp_times)
CalcCall ==
    /\ pc = "calc"
    /\ ret' = calc_resp_times(resp_times)
    /\ pc' = "calc_returned"
    /\ UNCHANGED <<args, url, redir_url, run, runId, session, nextSession, resp_times,
                   i, start, r, clock, inflight, exc, trace>>

CalcNext == CalcCall

CalcSpec == CalcInit /\ [][CalcNext]_vars

----------------------------------------------------------------------------
(* Reading the history *)

IsHttpError(status) == status \in 400 .. 599

IsNet(e) == e.ev \in {"GET", "RESP", "FAIL"}

\* all GETs and their outcomes, in order
Net == SelectSeq(trace, IsNet)

\* the events of time_url call / loop iteration rid
RunEvents(rid) == SelectSeq(trace, LAMBDA e : e.run = rid)
RunNet(rid) == SelectSeq(trace, LAMBDA e : e.run = rid /\ IsNet(e))
RunGets(rid) == SelectSeq(trace, LAMBDA e : e.run = rid /\ e.ev = "GET")
TimedGets(rid) ==
    SelectSeq(trace, LAMBDA e : e.run = rid /\ e.ev = "GET" /\ e.kind = "timed")
TimedResps(rid) ==
    SelectSeq(trace, LAMBDA e : e.run = rid /\ e.ev = "RESP" /\ e.kind = "timed")

\* positions of the printed lines of the given kinds
LinesAt(kinds) == { k \in DOMAIN trace : trace[k].ev = "print" /\ trace[k].kind \in kinds }
RunLines(rid, kinds) == { k \in LinesAt(kinds) : trace[k].run = rid }

SummaryKinds == {"summary_human", "summary_parsable", "summary_report"}
SamplerKinds == {"prime", "timed"}

\* the current time_url call has returned to its caller
Returned == pc \in {"summary", "loop_result"}

\* the current time_url call ended by an exception other than an interrupt
RunRaised ==
    \/ pc = "crashed" /\ exc.where \in TimeUrlPcs
    \/ RunLines(runId, {"ERROR"}) # {}

\* loop iteration rid has reached its sleep
Completed(rid) == \E k \in DOMAIN trace : trace[k].ev = "sleep" /\ trace[k].run = rid

----------------------------------------------------------------------------
(* Claims *)

\* C1: a time_url call with n >= 1 whose responses all have a non-error
\* status issues exactly n timed GETs, one at a time (every GET has returned
\* before the next one is sent), and records exactly n durations, the j-th
\* being that of the j-th timed request.
C1_TimedRequestsInOrder ==
    LET net == Net
        answered == TimedResps(runId)
        lastNet == RunNet(runId)[Len(RunNet(runId))]
    IN  /\ inflight \in {0, 1}
        /\ \A k \in DOMAIN net :
              IF net[k].ev = "GET"
              THEN k < Len(net) =>
                      /\ net[k + 1].ev \in {"RESP", "FAIL"}
                      /\ net[k + 1].kind = net[k].kind
                      /\ net[k + 1].run = net[k].run
              ELSE k > 1 /\ net[k - 1].ev = "GET"
        /\ runId >= 1 =>
              /\ Len(TimedGets(runId)) <= max(run.num_requests, 0)
              /\ Len(resp_times) = Len(answered)
              /\ \A j \in DOMAIN resp_times : resp_times[j] = answered[j].d
              /\ Returned =>
                    /\ Len(TimedGets(runId)) = run.num_requests
                    /\ Len(resp_times) = run.num_requests
                    /\ \A j \in DOMAIN answered : ~IsHttpError(answered[j].status)
              /\ (RunRaised /\ run.num_requests >= 1) =>
                    \/ lastNet.ev = "FAIL"
                    \/ lastNet.ev = "RESP" /\ lastNet.kind = "timed"
                          /\ IsHttpError(lastNet.status)

C1_Witness ==
    /\ pc = "summary"
    /\ run.num_requests = 2
    /\ run.use_keepalive
    /\ resp_times[1] # resp_times[2]

\* C2: with use_keepalive exactly one extra GET (the priming request) is
\* sent before the first timed request, it adds no duration, and every timed
\* request goes through the priming request's session; without use_keepalive
\* there is no extra GET and the GETs of the call are the timed requests.
C2_PrimingRequest ==
    runId >= 1 =>
        LET g == RunGets(runId)
        IN  /\ \A k \in DOMAIN g :
                  /\ (g[k].kind = "prime") <=> (run.use_keepalive /\ k = 1)
                  /\ g[k].kind \in SamplerKinds
                  /\ g[k].via = g[1].via
                  /\ (g[k].via # 0) <=> run.use_keepalive
            /\ Len(g) = Len(TimedGets(runId)) + (IF run.use_keepalive /\ Len(g) > 0 THEN 1 ELSE 0)
            /\ Len(resp_times) = Len(TimedResps(runId))
            /\ Returned =>
                  Len(g) = run.num_requests + (IF run.use_keepalive THEN 1 ELSE 0)
            /\ (run.use_keepalive /\ (pc \in {"timed_loop", "timed"} \/ Returned)) =>
                  /\ Len(g) >= 1
                  /\ RunNet(runId)[2].ev = "RESP" /\ RunNet(runId)[2].kind = "prime"

C2_Witness ==
    /\ pc = "summary"
    /\ run.use_keepalive
    /\ run.num_requests = 2
    /\ Len(RunGets(runId)) = 3
    /\ Len(resp_times) = 2

\* A response of one of the given kinds with an HTTP error status ends its
\* run: no later GET in that run, no result or summary, the HTTPError goes
\* to loop_url's handler (ERROR line) or ends the program.
ErrorResponseAborts(kinds) ==
    \A k \in DOMAIN trace :
        LET e == trace[k]
        IN  (e.ev = "RESP" /\ e.kind \in kinds /\ IsHttpError(e.status)) =>
               /\ \A m \in DOMAIN trace :
                     m > k => ~(trace[m].ev = "GET" /\ trace[m].run = e.run)
               /\ RunLines(e.run, SummaryKinds \cup {"result"}) = {}
               /\ ~(runId = e.run /\ pc \in TimeUrlPcs \cup {"summary", "loop_result"})
               /\ IF k < Len(trace)
                  THEN trace[k + 1] = Line("ERROR", e.run)
                  ELSE pc = "crashed" /\ exc.type = "HTTPError"

\* C3 as stated: every response of a run, the priming response included,
\* aborts the run when its status is an HTTP error.
C3_AnyErrorResponseAborts == ErrorResponseAborts(SamplerKinds)

\* C3: a time_url call aborts with a propagated HTTPError, returning no
\* summary, when a timed response has an HTTP error status, and sends no
\* further request; the priming response's status is not checked.
C3_TimedErrorResponseAborts == ErrorResponseAborts({"timed"})

C3_Witness ==
    /\ pc = "crashed"
    /\ exc.type = "HTTPError"
    /\ run.num_requests = 2
    /\ Len(resp_times) = 2
    /\ IsHttpError(r.status)

\* smallest and largest element of a non-empty sequence
SeqMin(seq) == CHOOSE x \in {seq[k] : k \in DOMAIN seq} : \A k \in DOMAIN seq : x <= seq[k]
SeqMax(seq) == CHOOSE x \in {seq[k] : k \in DOMAIN seq} : \A k \in DOMAIN seq : x >= seq[k]

\* C4: for every non-empty sequence calc_resp_times returns the smallest
\* element as min_time, the largest as max_time and an avg_time with
\* min_time <= avg_time <= max_time; for a single element all three are it.
C4_ReducerSummary ==
    (pc = "calc_returned" /\ Len(resp_times) >= 1) =>
        /\ ret.raised = ""
        /\ ret.min_time = SeqMin(resp_times)
        /\ ret.max_time = SeqMax(resp_times)
        /\ ret.min_time <= ret.avg_time
        /\ ret.avg_time <= ret.max_time
        /\ Len(resp_times) = 1 =>
              /\ ret.min_time = resp_times[1]
              /\ ret.max_time = resp_times[1]
              /\ ret.avg_time = resp_times[1]

\* a request of iteration rid raised, or any of its responses (the priming
\* one included) has an HTTP error status
FailedAnyRequest(rid) ==
    \E k \in DOMAIN RunNet(rid) :
        \/ RunNet(rid)[k].ev = "FAIL"
        \/ RunNet(rid)[k].ev = "RESP" /\ IsHttpError(RunNet(rid)[k].status)

\* a request of iteration rid raised, or its timed response has an HTTP
\* error status
FailedRaising(rid) ==
    \E k \in DOMAIN RunNet(rid) :
        \/ RunNet(rid)[k].ev = "FAIL"
        \/ /\ RunNet(rid)[k].ev = "RESP"
           /\ RunNet(rid)[k].kind = "timed"
           /\ IsHttpError(RunNet(rid)[k].status)

\* Every iteration prints one timestamp, then one result or ERROR line,
\* then sleeps for the delay and the next iteration starts; a failed
\* iteration prints ERROR and no result; the loop is never left because of
\* a request failure.
LoopIsolatesFailures(FailedIn(_)) ==
    args.loop =>
        /\ runId >= 1 => pc # "crashed"
        /\ \A rid \in 1 .. runId :
              LET E == RunEvents(rid)
              IN  /\ E[1] = Line("timestamp", rid)
                  /\ Cardinality(RunLines(rid, {"timestamp"})) = 1
                  /\ Cardinality(RunLines(rid, {"result", "ERROR"})) <= 1
                  /\ rid < runId => Completed(rid)
                  /\ Completed(rid) =>
                        /\ E[Len(E)] = Slept(rid, LoopDelay)
                        /\ E[Len(E) - 1].ev = "print"
                        /\ E[Len(E) - 1].kind \in {"result", "ERROR"}
                        /\ FailedIn(rid) => E[Len(E) - 1].kind = "ERROR"

\* C5 as stated: an HTTP error status on the priming response counts as a
\* failure of the iteration and yields an ERROR line.
C5_AnyFailureIsReported == LoopIsolatesFailures(FailedAnyRequest)

\* C5: in loop_url a network failure of the priming or the timed request,
\* or an HTTP error status of the timed response, is caught in its
\* iteration: one ERROR line, no result line, the normal sleep, the next
\* iteration; an iteration without such a failure prints its result.
C5_RaisedFailureIsReported ==
    /\ LoopIsolatesFailures(FailedRaising)
    /\ args.loop =>
          \A rid \in 1 .. runId :
              (Completed(rid) /\ ~FailedRaising(rid)) =>
                  RunLines(rid, {"result"}) # {} /\ RunLines(rid, {"ERROR"}) = {}

C5_Witness ==
    /\ args.loop
    /\ runId = 2
    /\ \E k \in DOMAIN trace :
          /\ trace[k].run = 1 /\ trace[k].ev = "RESP" /\ trace[k].kind = "timed"
          /\ IsHttpError(trace[k].status)
    /\ RunLines(1, {"ERROR"}) # {}
    /\ RunLines(2, {"result"}) # {}

\* C6: in single-run mode a timed response with an HTTP error status means
\* that no summary line of any format is printed and the program ends with
\* the HTTPError; a summary is printed only after all n timed requests
\* returned a non-error status.
C6_SummaryOnlyAfterSuccess ==
    (~args.loop /\ ~args.info) =>
        /\ LinesAt(SummaryKinds) # {} =>
              /\ LinesAt(SummaryKinds) = {Len(trace)}
              /\ pc = "done"
              /\ Len(TimedResps(1)) = args.requests
              /\ Len(TimedGets(1)) = args.requests
              /\ \A j \in DOMAIN TimedResps(1) : ~IsHttpError(TimedResps(1)[j].status)
        /\ (\E j \in DOMAIN TimedResps(1) : IsHttpError(TimedResps(1)[j].status)) =>
              /\ LinesAt(SummaryKinds) = {}
              /\ pc = "crashed"
              /\ exc.type = "HTTPError"

C6_Witness ==
    /\ ~args.loop
    /\ args.parsable
    /\ pc = "crashed"
    /\ exc.type = "HTTPError"
    /\ run.num_requests = 2
    /\ Len(resp_times) = 1

\* C7: calc_resp_times is only ever called with a non-empty sequence: for
\* every request count the command line accepts, no call raises
\* ZeroDivisionError on an empty resp_times.
C7_ReducerNeverGivenEmpty ==
    ~(pc = "crashed" /\ exc.type = "ZeroDivisionError" /\ resp_times = <<>>)

\* C8: in loop mode a KeyboardInterrupt, wherever it arrives, is not caught
\* by loop_url's handler: it reaches the top level, "Aborted." is printed
\* once and is the last thing that happens (no request, no line after it).
C8_InterruptAborts ==
    args.loop =>
        /\ exc.type = "KeyboardInterrupt" => pc = "aborted"
        /\ Cardinality(LinesAt({"Aborted"})) <= 1
        /\ pc = "aborted" =>
              /\ LinesAt({"Aborted"}) = {Len(trace)}
              /\ exc.type = "KeyboardInterrupt"
              /\ inflight = 0
        /\ LinesAt({"Aborted"}) # {} => pc = "aborted"

C8_Witness ==
    /\ args.loop
    /\ pc = "aborted"
    /\ exc.where = "timed"
    /\ runId = 2
    /\ trace[Len(trace) - 1].ev = "GET"

\* exactly one resolver GET precedes the sampler GET at position k, and the
\* sampler asks for the URL the resolver's response ended at
ResolvedBefore(k) ==
    /\ Cardinality({m \in DOMAIN trace :
                       trace[m].ev = "GET" /\ trace[m].kind = "resolve"}) = 1
    /\ \E m \in 1 .. k - 1 :
          /\ trace[m].ev = "RESP" /\ trace[m].kind = "resolve"
          /\ trace[k].url = trace[m].url

SamplerGetAt(k) == trace[k].ev = "GET" /\ trace[k].kind \in SamplerKinds

\* C9 as stated: in every timing mode and for every combination of flags
\* one resolver GET precedes the first sampler request, and the sampler is
\* given the resolved URL.
C9_AlwaysResolveThenSample ==
    \A k \in DOMAIN trace : SamplerGetAt(k) => ResolvedBefore(k)

\* C9: resolve then sample, the resolver GET being sent once (in loop mode
\* once before the loop), except in single-run mode with --single, where no
\* resolver GET is sent and the sampler is given the input URL with its
\* scheme defaulted.
C9_ResolveThenSampleUnlessSingle ==
    \A k \in DOMAIN trace :
        SamplerGetAt(k) =>
            IF args.loop \/ ~args.single
            THEN ResolvedBefore(k)
            ELSE /\ \A m \in DOMAIN trace : trace[m].kind # "resolve"
                 /\ trace[k].url = url
                 /\ HasScheme(url)

C9_Witness ==
    /\ args.loop
    /\ runId = 2
    /\ Len(TimedGets(2)) = 1
    /\ TimedGets(2)[1].url = <<"https", "://", "final">>
    /\ url # <<"https", "://", "final">>

\* Loop mode calls time_url with n = 1; with keepalive an iteration creates
\* its own session, sends the priming GET and then the timed GET through
\* it, and no other iteration uses that session; without keepalive it sends
\* the one timed GET.  PrimeMayFail: an iteration whose priming request
\* raised has sent only that GET.
LoopConnectionScope(PrimeMayFail) ==
    (args.loop /\ runId >= 1) =>
        /\ run.num_requests = 1
        /\ \A rid \in 1 .. runId :
              LET g == RunGets(rid)
              IN  IF run.use_keepalive
                  THEN /\ Len(g) <= 2
                       /\ Len(g) >= 1 => g[1].kind = "prime" /\ g[1].via # 0
                       /\ Len(g) = 2 => g[2].kind = "timed" /\ g[2].via = g[1].via
                       /\ Len(g) >= 1 =>
                             \A k \in DOMAIN trace :
                                 (IsNet(trace[k]) /\ trace[k].via = g[1].via)
                                     => trace[k].run = rid
                       /\ Completed(rid) =>
                             \/ Len(g) = 2
                             \/ PrimeMayFail /\ Len(g) = 1 /\ RunNet(rid)[2].ev = "FAIL"
                  ELSE /\ Len(g) <= 1
                       /\ \A k \in DOMAIN g : g[k].kind = "timed" /\ g[k].via = 0
                       /\ Completed(rid) => Len(g) = 1

\* C10 as stated: with keepalive every iteration sends exactly two GETs.
C10_AlwaysTwoGets == LoopConnectionScope(FALSE)

\* C10: connection scoping in loop mode is per iteration: with keepalive an
\* iteration creates a new session and sends exactly two GETs through it
\* (priming, timed), or only the priming GET when that request itself
\* raises; without keepalive it sends exactly one GET; no session of one
\* iteration is used by a request of another.
C10_SessionPerIteration == LoopConnectionScope(TRUE)

C10_Witness ==
    /\ args.loop
    /\ run.use_keepalive
    /\ runId = 2
    /\ Completed(2)
    /\ Len(RunGets(1)) = 2
    /\ Len(RunGets(2)) = 2
    /\ RunGets(1)[1].via # RunGets(2)[1].via

====
